---------------------------- MODULE Spec2Model ----------------------------
(***************************************************************************)
(* Reverse shooting for the two-sector energy transition model.            *)
(*                                                                         *)
(* The module models                                                       *)
(*   - ReverseShootingSolver.solve (src/solvers.py) and its twin           *)
(*     TransitionDynamicsModel._solve_reverse_shooting (src/models.py):    *)
(*     the perturbed initial condition, the shooting loop, the reversal    *)
(*     of the accumulated samples and the post-processing;                 *)
(*   - EnergyMarket.find_market_price (src/energy_markets.py) and the      *)
(*     property TransitionDynamicsModel.equilibrium built on it;           *)
(*   - the NonRenewableEnergySector operations and the constructors of     *)
(*     the two sectors (src/energy_sectors.py).                            *)
(*                                                                         *)
(* Numbers.  Capital, q and time are floats in the program.  Here they are *)
(* integers on a grid.  The relative perturbation eps (1e-12 in            *)
(* solvers.py, 1e-15 in models.py) is the rational eps/EpsScale, and the   *)
(* equilibrium capital is a multiple of EpsScale so that the product       *)
(* (1 + step) * equilibrium is exact on the grid.                          *)
(*                                                                         *)
(* The ODE integrator (scipy.integrate.ode) and the model's right-hand     *)
(* side are outside the repository: one call of _ode.integrate is a        *)
(* nondeterministic choice of the state it leaves in _ode.y, _ode.t and of *)
(* what _ode.successful() reports afterwards.                              *)
(***************************************************************************)
EXTENDS Integers, Sequences, FiniteSets, TLC

VARIABLES
    impl,          \* which of the two copies of the algorithm runs
    model,         \* the fields of the TransitionDynamicsModel passed to solve
    equilibrium,   \* model.equilibrium: [q |-> q*, K |-> K*]
    t0, K0, dt,    \* arguments of solve
    pc,            \* position in solve
    ode_y,         \* _ode.y: [q, K]
    ode_t,         \* _ode.t
    ode_ok,        \* _ode.successful()
    ts,            \* ts: the time stamps appended so far
    solution,      \* solution: the stacked samples, in production order
    trajectory,    \* the value solve returns (<<>> until it returns)
    columns,       \* what the columns of the array of lines 38-45 hold
    error,         \* the exception solve ended with ("none" if none)
    sec_pc,        \* sector call: "off", "idle" (before) or "done" (after)
    sec_params,    \* the NonRenewableEnergySector's fields
    sec_args,      \* the arguments of the call
    sec_op,        \* the operation called
    sec_result,    \* what the call ended with: a value or an exception
    mkt_pc,        \* market call: "off", "idle" (before) or "done" (after)
    mkt_args,      \* the sectors, the consumer and the capital of the call
    mkt_result     \* what find_market_price ended with

solverVars == <<impl, model, equilibrium, t0, K0, dt, pc, ode_y, ode_t, ode_ok,
                ts, solution, trajectory, columns, error>>

sectorVars == <<sec_pc, sec_params, sec_args, sec_op, sec_result>>

marketVars == <<mkt_pc, mkt_args, mkt_result>>

vars == <<solverVars, sectorVars, marketVars>>

--------------------------------------------------------------------------
(* Bounds of the model *)

EpsScale == 4        \* grid cells per unit of relative size: eps = n/EpsScale
MaxKstarMult == 2    \* K* ranges over EpsScale * (1..MaxKstarMult)
MaxSteps == 3        \* integration steps explored per solve

(* eps of each copy, as a numerator over EpsScale (1e-12 > 1e-15) *)
EpsSolver == 2
EpsModel == 1

Impls == {"ReverseShootingSolver", "TransitionDynamicsModel"}

KstarValues == {EpsScale * m : m \in 1..MaxKstarMult}
MaxK == (EpsScale + EpsSolver) * MaxKstarMult + 1
K0Values == 1..MaxK          \* K0 is strictly positive
T0Values == {0, 1}
DtValues == {1, 2}           \* dt is strictly positive
QstarValues == {3}           \* equilibrium_q = 1 + (3/2) delta^2 phi > 1
KDeltas == {-2, -1, 0, 1, 2} \* what one integrator call may do to K
QDeltas == {1}               \* ... and to q (every call moves q)

--------------------------------------------------------------------------
(* Pure parts of solve *)

eps(i) == IF i = "ReverseShootingSolver" THEN EpsSolver ELSE EpsModel

\* step with a strict comparison: K0 = K* is displaced upward
stepStrict(i, k0, eq) ==
    IF k0 < eq.K THEN [q |-> 0, K |-> -eps(i)] ELSE [q |-> 0, K |-> eps(i)]

\* step = [0, -eps] if K0 <= equilibrium[1] else [0, eps]   (times EpsScale)
step(i, k0, eq) ==
    IF k0 <= eq.K THEN [q |-> 0, K |-> -eps(i)] ELSE [q |-> 0, K |-> eps(i)]

\* initial_condition = (1 + step) * equilibrium, elementwise
initial_condition(i, k0, eq) ==
    [q |-> ((EpsScale + step(i, k0, eq).q) * eq.q) \div EpsScale,
     K |-> ((EpsScale + step(i, k0, eq).K) * eq.K) \div EpsScale]

\* the branch taken at "if K0 <= model.equilibrium[1]"
downward(k0, eq) == k0 <= eq.K

\* LoopCond with strict comparisons: a sample at K0 itself ends the loop
LoopCondStrict(ok, y, k0, eq) ==
    IF k0 <= eq.K THEN ok /\ y.K > k0 ELSE ok /\ y.K < k0

\* the condition of the while loop of the branch taken
LoopCond(ok, y, k0, eq) ==
    IF downward(k0, eq) THEN ok /\ y.K >= k0 ELSE ok /\ y.K <= k0

\* the samples left in the order of production
ReverseForgotten(s) == s

\* solution[::-1, :]
RECURSIVE Reverse(_)
Reverse(s) == IF s = <<>> THEN <<>> ELSE Append(Reverse(Tail(s)), Head(s))

\* the rows stacked with the first time stamp and the first row left out
hstackTail(tt, rows) ==
    [i \in 1..(Len(tt) - 1) |->
        [t |-> tt[i + 1], q |-> rows[i + 1].q, K |-> rows[i + 1].K]]

\* np.hstack((ts[:, np.newaxis], solution[::-1, :])): row i is ts[i] next to
\* row i of the reversed samples
hstack(tt, rows) ==
    [i \in 1..Len(tt) |-> [t |-> tt[i], q |-> rows[i].q, K |-> rows[i].K]]

\* solution is the 1-D array initial_condition until the first vstack
ndim(sol) == IF Len(sol) = 1 THEN 1 ELSE 2

--------------------------------------------------------------------------
(* Outcomes of a call: a number, or the exception that ended it *)

Value(n) == [kind |-> "value", val |-> n, err |-> "none"]
Raise(e) == [kind |-> "raise", val |-> 0, err |-> e]

\* a number that is not real: the complex result of a negative base raised
\* to the power 0.5 (a numpy scalar gives nan instead); it is a value, no
\* exception, and every arithmetic operation on it gives such a number
Complex == [kind |-> "complex", val |-> 0, err |-> "none"]

\* the integer square root (floats round; the grid floors)
isqrt(n) == CHOOSE r \in 0..n : r * r <= n /\ (r + 1) * (r + 1) > n

\* base ** (e2 / 2) for a base >= 0: the exponents of the model are halves
RECURSIVE ipow(_, _)
ipow(b, n) == IF n = 0 THEN 1 ELSE b * ipow(b, n - 1)
pow2(b, e2) == IF e2 % 2 = 0 THEN ipow(b, e2 \div 2)
                             ELSE ipow(b, e2 \div 2) * isqrt(b)

\* a / b of two Python numbers
Div(a, b) == IF b = 0 THEN Raise("ZeroDivisionError") ELSE Value(a \div b)

--------------------------------------------------------------------------
(* NonRenewableEnergySector (src/energy_sectors.py).  The fields alpha,    *)
(* beta and gamma are held in halves (alpha2 = 2 alpha, ...); rho is the   *)
(* fraction (sigma - 1) / sigma.                                           *)

\* self._rho = (sigma - 1) / sigma
rho(p) == [num |-> p.sigma - 1, den |-> p.sigma]

\* _is_cobb_douglas
is_cobb_douglas(p) ==
    (rho(p).num = 0) /\ ((p.alpha2 + p.beta2) = p.gamma2)

\* _investment_demand: ((2 / 3) * (q - 1) * (1 / phi))**0.5 * capital, with
\* 2 / 3 the true quotient; there is no test of q, and the power 0.5 of a
\* negative base is a complex number
investment_demand(p, q, capital) ==
    IF p.phi = 0 THEN Raise("ZeroDivisionError")
    ELSE IF (q - 1) * p.phi < 0 THEN Complex
    ELSE Value(pow2((2 * (q - 1)) \div (3 * p.phi), 1) * capital)

\* _percentage_adjustment_costs: (phi / 2) * (investment / capital)**2
percentage_adjustment_costs(p, capital, investment) ==
    LET ratio == Div(investment, capital)
    IN  IF ratio.kind = "raise" THEN ratio
        ELSE Value((p.phi * ipow(ratio.val, 2)) \div 2)

\* _marginal_percentage_adjustment_costs:
\*     -phi * (investment / capital)**2 * (1 / capital)
marginal_percentage_adjustment_costs(p, capital, investment) ==
    LET ratio == Div(investment, capital)
    IN  IF ratio.kind = "raise" THEN ratio
        ELSE Value((0 - p.phi * ipow(ratio.val, 2)) \div capital)

\* _fossil_fuel_demand with the closed form used for every parameter set
fossil_fuel_demand_unguarded(p, capital, energy_price, fossil_fuel_price) ==
    LET relative_price == Div(fossil_fuel_price, energy_price)
    IN  IF relative_price.kind = "raise" THEN relative_price
        ELSE IF p.beta2 = 2 THEN Raise("ZeroDivisionError")
        ELSE Value(
               pow2((p.tfp * p.beta2 * energy_price) \div (2 * fossil_fuel_price),
                    4 \div (2 - p.beta2))
               * pow2(capital, (2 * p.alpha2) \div (2 - p.beta2)))

\* _fossil_fuel_demand
fossil_fuel_demand(p, capital, energy_price, fossil_fuel_price) ==
    LET relative_price == Div(fossil_fuel_price, energy_price)
    IN  IF relative_price.kind = "raise" THEN relative_price
        ELSE IF is_cobb_douglas(p)
          THEN IF p.beta2 = 2 THEN Raise("ZeroDivisionError")
               ELSE Value(
                      pow2((p.tfp * p.beta2 * energy_price)
                               \div (2 * fossil_fuel_price),
                           4 \div (2 - p.beta2))
                      * pow2(capital, (2 * p.alpha2) \div (2 - p.beta2)))
          ELSE Raise("NotImplementedError")

\* output
output(p, capital, energy_price, fossil_fuel_price) ==
    LET F == fossil_fuel_demand(p, capital, energy_price, fossil_fuel_price)
    IN  IF F.kind = "raise" THEN F
        ELSE IF is_cobb_douglas(p)
          THEN Value(p.tfp * pow2(capital, p.alpha2) * pow2(F.val, p.beta2))
          ELSE IF rho(p).num = 0
            THEN Value(p.tfp * pow2(pow2(capital, p.alpha2) * pow2(F.val, p.beta2),
                                    p.gamma2))
            ELSE Value(p.tfp
                       * pow2((p.alpha2 * pow2(capital, (2 * rho(p).num) \div rho(p).den)
                               + p.beta2 * pow2(F.val, (2 * rho(p).num) \div rho(p).den))
                                  \div 2,
                              (p.gamma2 * rho(p).den) \div rho(p).num))

\* _revenue: energy_price * output
revenue(p, capital, energy_price, fossil_fuel_price) ==
    LET energy == output(p, capital, energy_price, fossil_fuel_price)
    IN  IF energy.kind = "raise" THEN energy
        ELSE Value(energy_price * energy.val)

\* _cost_capital: capital_price * (1 + percentage adjustment costs) * I
cost_capital(p, q, capital, capital_price) ==
    LET I == investment_demand(p, q, capital)
    IN  IF I.kind = "raise" THEN I
        ELSE LET pac == percentage_adjustment_costs(p, capital, I.val)
             IN  IF pac.kind = "raise" THEN pac
                 ELSE IF I.kind = "complex" THEN Complex
                 ELSE Value(capital_price * (1 + pac.val) * I.val)

\* _cost_fossil_fuel: fossil_fuel_price * F
cost_fossil_fuel(p, capital, energy_price, fossil_fuel_price) ==
    LET F == fossil_fuel_demand(p, capital, energy_price, fossil_fuel_price)
    IN  IF F.kind = "raise" THEN F
        ELSE Value(fossil_fuel_price * F.val)

\* costs: the cost of capital is evaluated first, then the cost of fuel
costs(p, q, capital, capital_price, energy_price, fossil_fuel_price) ==
    LET cc == cost_capital(p, q, capital, capital_price)
    IN  IF cc.kind = "raise" THEN cc
        ELSE LET cf == cost_fossil_fuel(p, capital, energy_price, fossil_fuel_price)
             IN  IF cf.kind = "raise" THEN cf
                 ELSE IF cc.kind = "complex" THEN Complex
                 ELSE Value(cc.val + cf.val)

\* profits: the revenue is evaluated first, then the costs
profits(p, q, capital, capital_price, energy_price, fossil_fuel_price) ==
    LET rev == revenue(p, capital, energy_price, fossil_fuel_price)
    IN  IF rev.kind = "raise" THEN rev
        ELSE LET c == costs(p, q, capital, capital_price, energy_price,
                            fossil_fuel_price)
             IN  IF c.kind = "raise" THEN c
                 ELSE IF c.kind = "complex" THEN Complex
                 ELSE Value(rev.val - c.val)

\* _marginal_product_capital (the CES branch reads the unbound name rho)
marginal_product_capital(p, capital, energy_price, fossil_fuel_price) ==
    LET F == fossil_fuel_demand(p, capital, energy_price, fossil_fuel_price)
    IN  IF F.kind = "raise" THEN F
        ELSE LET energy == output(p, capital, energy_price, fossil_fuel_price)
             IN  IF energy.kind = "raise" THEN energy
                 ELSE IF is_cobb_douglas(p)
                   THEN LET r == Div(energy.val, capital)
                        IN  IF r.kind = "raise" THEN r
                            ELSE Value((p.alpha2 * r.val) \div 2)
                   ELSE IF rho(p).num = 0
                     THEN LET r == Div(energy.val, capital)
                          IN  IF r.kind = "raise" THEN r
                              ELSE Value((p.alpha2 * p.gamma2 * r.val) \div 4)
                     ELSE Raise("NameError")

\* _marginal_product_fossil_fuel (the CES branch reads the unbound name
\* fossil_fuel)
marginal_product_fossil_fuel(p, capital, energy_price, fossil_fuel_price) ==
    LET F == fossil_fuel_demand(p, capital, energy_price, fossil_fuel_price)
    IN  IF F.kind = "raise" THEN F
        ELSE LET energy == output(p, capital, energy_price, fossil_fuel_price)
             IN  IF energy.kind = "raise" THEN energy
                 ELSE IF is_cobb_douglas(p)
                   THEN LET r == Div(energy.val, F.val)
                        IN  IF r.kind = "raise" THEN r
                            ELSE Value((p.beta2 * r.val) \div 2)
                   ELSE IF rho(p).num = 0
                     THEN LET r == Div(energy.val, F.val)
                          IN  IF r.kind = "raise" THEN r
                              ELSE Value((p.beta2 * p.gamma2 * r.val) \div 4)
                     ELSE Raise("NameError")

\* _value_marginal_product_capital: energy_price * marginal product
value_marginal_product_capital(p, capital, energy_price, fossil_fuel_price) ==
    LET mpk == marginal_product_capital(p, capital, energy_price, fossil_fuel_price)
    IN  IF mpk.kind = "raise" THEN mpk
        ELSE Value(energy_price * mpk.val)

\* equation_motion_capital: I - delta * capital
equation_motion_capital(p, q, capital) ==
    LET I == investment_demand(p, q, capital)
    IN  IF I.kind = "raise" THEN I
        ELSE IF I.kind = "complex" THEN Complex
        ELSE Value(I.val - p.delta * capital)

\* equation_motion_q: the three terms are evaluated from left to right
equation_motion_q(p, q, capital, capital_price, energy_price, fossil_fuel_price, interest_rate) ==
    LET I == investment_demand(p, q, capital)
    IN  IF I.kind = "raise" THEN I
        ELSE LET mpac == marginal_percentage_adjustment_costs(p, capital, I.val)
             IN  IF mpac.kind = "raise" THEN mpac
                 ELSE LET vmp == value_marginal_product_capital(
                                     p, capital, energy_price, fossil_fuel_price)
                      IN  IF vmp.kind = "raise" THEN vmp
                          ELSE LET r == Div(vmp.val, capital_price)
                               IN  IF r.kind = "raise" THEN r
                                   ELSE IF I.kind = "complex" THEN Complex
                                   ELSE Value((interest_rate + p.delta) * q
                                              + mpac.val * I.val - r.val)

--------------------------------------------------------------------------
(* RenewableEnergySector (src/energy_sectors.py) *)

\* subsidy: (1 + mu) * energy_price
subsidy(rp, energy_price) == (1 + rp.mu) * energy_price

\* _capital_demand:
\*     ((alpha * tfp / (r + delta)) * (1 / relative_price))**(1 / (1 - alpha))
\* with relative_price = capital_price / subsidy(energy_price)
capital_demand(rp, capital_price, energy_price, interest_rate) ==
    IF subsidy(rp, energy_price) = 0 \/ interest_rate + rp.delta = 0
         \/ capital_price = 0 \/ rp.alpha2 = 2
      THEN Raise("ZeroDivisionError")
      ELSE Value(pow2((rp.alpha2 * rp.tfp * subsidy(rp, energy_price))
                         \div (2 * (interest_rate + rp.delta) * capital_price),
                      4 \div (2 - rp.alpha2)))

\* output: tfp * capital**alpha at the capital demanded
renewable_output(rp, capital_price, energy_price, interest_rate) ==
    LET capital == capital_demand(rp, capital_price, energy_price, interest_rate)
    IN  IF capital.kind = "raise" THEN capital
        ELSE Value(rp.tfp * pow2(capital.val, rp.alpha2))

--------------------------------------------------------------------------
(* EnergyMarket (src/energy_markets.py) and EnergyConsumer.  The price     *)
(* bracket [1e-12, 1e12] of the root search is the grid PriceLo..PriceHi.  *)

PriceLo == 1
PriceHi == 6

\* EnergyConsumer.demand: inelastic
demand(a, price) == Value(a.quantity_demand)

\* _aggregate_supply: non-renewable supply + renewable supply
aggregate_supply(a, price) ==
    LET nrs == output(a.nr, a.capital, price, a.fossil_fuel_price)
    IN  IF nrs.kind = "raise" THEN nrs
        ELSE LET rs == renewable_output(a.rn, a.capital_price, price, a.interest_rate)
             IN  IF rs.kind = "raise" THEN rs
                 ELSE Value(nrs.val + rs.val)

\* _excess_demand: aggregate demand - aggregate supply
excess_demand(a, price) ==
    LET d == demand(a, price)
        sup == aggregate_supply(a, price)
    IN  IF sup.kind = "raise" THEN sup ELSE Value(d.val - sup.val)

\* x is a root of excess demand to within one grid cell
IsRoot(a, x) ==
    /\ x \in PriceLo..PriceHi
    /\ excess_demand(a, x).kind = "value"
    /\ \/ excess_demand(a, x).val = 0
       \/ /\ x < PriceHi
          /\ excess_demand(a, x).val * excess_demand(a, x + 1).val < 0
       \/ /\ x > PriceLo
          /\ excess_demand(a, x - 1).val * excess_demand(a, x).val < 0

\* scipy.optimize.brentq(f, PriceLo, PriceHi, full_output=True, disp=disp),
\* by its contract: an exception of f propagates; f(a) f(b) > 0 raises
\* ValueError; otherwise it returns (x, results) with x a root and
\* results.converged true, or the iterations run out, which raises
\* RuntimeError under disp and returns results.converged false otherwise
brentq(a, disp) ==
    LET fa == excess_demand(a, PriceLo)
        fb == excess_demand(a, PriceHi)
        Ret(x, c) == [kind |-> "return", x |-> x, converged |-> c, err |-> "none"]
        Exc(e) == [kind |-> "raise", x |-> 0, converged |-> FALSE, err |-> e]
    IN  IF fa.kind = "raise" THEN {Exc(fa.err)}
        ELSE IF fb.kind = "raise" THEN {Exc(fb.err)}
        ELSE IF fa.val * fb.val > 0 THEN {Exc("ValueError")}
        ELSE {Ret(x, TRUE) : x \in {y \in PriceLo..PriceHi : IsRoot(a, y)}}
             \cup (IF disp THEN {Exc("RuntimeError")}
                           ELSE {Ret(x, FALSE) : x \in PriceLo..PriceHi})

\* line 13: return price if results.converged else results
price_or_results(o) ==
    IF o.kind = "raise" THEN [kind |-> "raise", val |-> 0, err |-> o.err]
    ELSE IF o.converged THEN [kind |-> "price", val |-> o.x, err |-> "none"]
    ELSE [kind |-> "results", val |-> o.x, err |-> "none"]

\* find_market_price: every way the call can end (disp is left at its
\* default, True)
find_market_price(a) == {price_or_results(o) : o \in brentq(a, TRUE)}

--------------------------------------------------------------------------
(* TransitionDynamicsModel.equilibrium (src/models.py).  The capital       *)
(* bracket [1e-12, 1e12] of the root search is the grid                    *)
(* CapitalLo..CapitalHi.                                                   *)

CapitalLo == 1
CapitalHi == 6

\* NonRenewableEnergySector.equilibrium_q: 1 + (3 / 2) * delta**2 * phi
equilibrium_q(p) == (2 + 3 * ipow(p.delta, 2) * p.phi) \div 2

\* _compute_energy_price: the market price at a capital stock, every way
\* the search can end
compute_energy_price(a, capital) ==
    find_market_price([a EXCEPT !.capital = capital])

\* the function locus of q_dot_locus: _q_dot at the market price of the
\* capital stock, every way its evaluation can end
locus(a, q, capital) ==
    {IF o.kind = "raise" THEN Raise(o.err)
     ELSE equation_motion_q(a.nr, q, capital, a.capital_price, o.val,
                            a.fossil_fuel_price, a.interest_rate) :
       o \in compute_energy_price(a, capital)}

\* capital k is a root to within one grid cell of the function whose
\* outcomes at each capital stock of the bracket are f[k]
IsLocusRoot(f, k) ==
    /\ k \in CapitalLo..CapitalHi
    /\ \E x \in f[k] :
         /\ x.kind = "value"
         /\ \/ x.val = 0
            \/ /\ k < CapitalHi
               /\ \E y \in f[k + 1] : y.kind = "value" /\ x.val * y.val < 0
            \/ /\ k > CapitalLo
               /\ \E y \in f[k - 1] : y.kind = "value" /\ y.val * x.val < 0

\* the locus of q over the bracket
locus_table(a, q) == [k \in CapitalLo..CapitalHi |-> locus(a, q, k)]

\* optimize.brentq(locus, min_capital, max_capital) by its contract (see
\* brentq above), for the function whose outcomes are f[k]: the two ends
\* are evaluated first, an exception of the function propagates, equal
\* signs at the ends raise ValueError, otherwise a root is returned or the
\* iterations run out
brentq_locus(f) ==
    LET raises(k) == {x \in f[k] : x.kind = "raise"}
        values(k) == {x.val : x \in {y \in f[k] : y.kind = "value"}}
    IN  raises(CapitalLo) \cup raises(CapitalHi)
        \cup (IF \E x \in values(CapitalLo), y \in values(CapitalHi) : x * y > 0
                THEN {Raise("ValueError")} ELSE {})
        \cup (IF \E x \in values(CapitalLo), y \in values(CapitalHi) : x * y <= 0
                THEN {Value(k) : k \in {j \in CapitalLo..CapitalHi :
                                           IsLocusRoot(f, j)}}
                     \cup UNION {raises(k) : k \in CapitalLo..CapitalHi}
                     \cup {Raise("RuntimeError")}
                ELSE {})

\* q_dot_locus
q_dot_locus(a, q) == brentq_locus(locus_table(a, q))

\* np.array([equilibrium_q, equilibrium_capital]), or the exception the
\* search for the capital ended with
equilibrium_array(q, k) ==
    IF k.kind = "value"
      THEN [kind |-> "equilibrium", q |-> q, val |-> k.val, err |-> "none"]
      ELSE k

\* the property equilibrium: equilibrium_q, then q_dot_locus(equilibrium_q)
model_equilibrium(a) ==
    {equilibrium_array(equilibrium_q(a.nr), k) :
       k \in q_dot_locus(a, equilibrium_q(a.nr))}

--------------------------------------------------------------------------
\* test_energy_markets._energy_market_price: the analytic price when
\* alpha = alpha_R = 1 - alpha_NR,
\*     (1 / alpha) * (quantity_demand / denominator)**((1 - alpha) / alpha)
\* with denominator =
\*     tfp_NR**(1 / (1 - alpha)) * (1 / pf)**(alpha / (1 - alpha)) * capital
\*     + tfp_R**(1 / (1 - alpha))
\*         * (((1 + mu) / pc) * (1 / (r + delta_R)))**(alpha / (1 - alpha))
\* The denominator is kept as the fraction num / den, so that the one
\* rounding is the last division.
energy_market_price(a) ==
    LET alpha2 == a.rn.alpha2
        e1 == 4 \div (2 - alpha2)
        e2 == (2 * alpha2) \div (2 - alpha2)
        e3 == (2 * (2 - alpha2)) \div alpha2
        num == pow2(a.nr.tfp, e1) * a.capital
                   * pow2(a.capital_price * (a.interest_rate + a.rn.delta), e2)
               + pow2(a.rn.tfp, e1) * pow2(1 + a.rn.mu, e2)
                   * pow2(a.fossil_fuel_price, e2)
        den == pow2(a.fossil_fuel_price, e2)
                   * pow2(a.capital_price * (a.interest_rate + a.rn.delta), e2)
    IN  (2 * pow2(a.quantity_demand * den, e3)) \div (alpha2 * pow2(num, e3))

--------------------------------------------------------------------------
(* State machine of one solve *)

\* a specification that does not run a component leaves it off
SolverOff ==
    /\ impl = "none" /\ model = <<>> /\ equilibrium = [q |-> 0, K |-> 0]
    /\ t0 = 0 /\ K0 = 0 /\ dt = 0 /\ pc = "off"
    /\ ode_y = [q |-> 0, K |-> 0] /\ ode_t = 0 /\ ode_ok = TRUE
    /\ ts = <<>> /\ solution = <<>> /\ trajectory = <<>> /\ columns = <<>>
    /\ error = "none"

SectorOff ==
    /\ sec_pc = "off" /\ sec_params = <<>> /\ sec_args = <<>>
    /\ sec_op = "none" /\ sec_result = Value(0)

MarketOff ==
    /\ mkt_pc = "off" /\ mkt_args = <<>> /\ mkt_result = Value(0)

\* TransitionDynamicsModel.__init__: the energy market (its two sectors)
\* and the three exogenous prices.  solve reads them only through the
\* equilibrium and the right-hand side, which are drawn freely here, so
\* one model stands for all.
Models ==
    [capital_price : {1}, fossil_fuel_price : {2}, interest_rate : {1},
     non_renewable : {[tfp |-> 2, alpha2 |-> 1, beta2 |-> 1, gamma2 |-> 2,
                       delta |-> 1, phi |-> 1, sigma |-> 1]},
     renewable : {[tfp |-> 2, alpha2 |-> 1, delta |-> 1, mu |-> 0]}]

Init ==
    /\ impl \in Impls
    /\ model \in Models
    /\ equilibrium \in [q : QstarValues, K : KstarValues]
    /\ t0 \in T0Values
    /\ K0 \in K0Values
    /\ dt \in DtValues
    /\ pc = "start"
    /\ ode_y = [q |-> 0, K |-> 0]
    /\ ode_t = 0
    /\ ode_ok = TRUE
    /\ ts = <<>>
    /\ solution = <<>>
    /\ trajectory = <<>>
    /\ columns = <<>>
    /\ error = "none"
    /\ SectorOff
    /\ MarketOff

\* lines 10-22 with the equilibrium stored in the model on the way
SetupWritesModel ==
    /\ pc = "start"
    /\ ode_y' = initial_condition(impl, K0, equilibrium)
    /\ ode_t' = t0
    /\ ode_ok' = TRUE
    /\ ts' = <<t0>>
    /\ solution' = <<initial_condition(impl, K0, equilibrium)>>
    /\ pc' = "loop"
    /\ model' = [model EXCEPT !.capital_price = equilibrium.K]
    /\ UNCHANGED <<impl, equilibrium, t0, K0, dt, trajectory, columns, error>>
    /\ UNCHANGED <<sectorVars, marketVars>>

\* lines 10-22: initial condition, integrator set up, ts and solution
Setup ==
    /\ pc = "start"
    /\ ode_y' = initial_condition(impl, K0, equilibrium)
    /\ ode_t' = t0
    /\ ode_ok' = TRUE
    /\ ts' = <<t0>>
    /\ solution' = <<initial_condition(impl, K0, equilibrium)>>
    /\ pc' = "loop"
    /\ UNCHANGED <<impl, model, equilibrium, t0, K0, dt, trajectory, columns, error>>
    /\ UNCHANGED <<sectorVars, marketVars>>

\* one iteration of the while loop: the integrator call returns
Integrate ==
    /\ pc = "loop"
    /\ LoopCond(ode_ok, ode_y, K0, equilibrium)
    /\ Len(ts) <= MaxSteps
    /\ \E dK \in KDeltas, dq \in QDeltas, ok \in BOOLEAN :
         /\ ode_y.K + dK \in 0..MaxK
         /\ ode_y' = [q |-> ode_y.q + dq, K |-> ode_y.K + dK]
         /\ ode_ok' = ok
         /\ ode_t' = IF ok THEN ode_t + dt ELSE ode_t
    /\ ts' = Append(ts, ode_t + dt)
    /\ solution' = Append(solution, ode_y')
    /\ UNCHANGED <<impl, model, equilibrium, t0, K0, dt, pc, trajectory, columns, error>>
    /\ UNCHANGED <<sectorVars, marketVars>>

\* one iteration of the while loop: the right-hand side raises inside the
\* integrator call (ts was appended to before the call)
IntegrateRaises ==
    /\ pc = "loop"
    /\ LoopCond(ode_ok, ode_y, K0, equilibrium)
    /\ Len(ts) <= MaxSteps
    /\ ts' = Append(ts, ode_t + dt)
    /\ pc' = "raised"
    /\ error' = "RhsError"
    /\ UNCHANGED <<impl, model, equilibrium, t0, K0, dt, ode_y, ode_t, ode_ok,
                   solution, trajectory, columns>>
    /\ UNCHANGED <<sectorVars, marketVars>>

\* the loop condition is false: solution[::-1, :] and the hstack with ts
\* (solvers.py line 38), or the return of models.py line 195
ReverseSamples ==
    /\ pc = "loop"
    /\ ~LoopCond(ode_ok, ode_y, K0, equilibrium)
    /\ IF ndim(solution) = 1
         THEN /\ pc' = "raised"
              /\ error' = "IndexError"
              /\ UNCHANGED <<trajectory, columns>>
         ELSE /\ trajectory' = hstack(ts, Reverse(solution))
              /\ pc' = IF impl = "ReverseShootingSolver" THEN "post" ELSE "returned"
              /\ columns' = IF impl = "ReverseShootingSolver"
                              THEN <<"t", "q", "K">> ELSE <<>>
              /\ UNCHANGED error
    /\ UNCHANGED <<impl, model, equilibrium, t0, K0, dt, ode_y, ode_t, ode_ok, ts, solution>>
    /\ UNCHANGED <<sectorVars, marketVars>>

\* A stage of the post-processing: the column it appends, the columns it
\* reads (0-based, with what the stage takes each for) and, where the rows
\* are unpacked whole, the number of columns they must have (0: any).

\* _compute_energy_prices: for _, _, K in solution
compute_energy_prices ==
    [appends |-> "price", width |-> 3, reads |-> {[col |-> 2, as |-> "K"]}]

\* _compute_non_renewable_sector_output: (capital, energy_price) in
\* solution[:, 2:4]
compute_non_renewable_sector_output ==
    [appends |-> "output_NR", width |-> 0,
     reads |-> {[col |-> 2, as |-> "K"], [col |-> 3, as |-> "price"]}]

\* _compute_renewable_sector_output: energy_prices = solution[:, 3]
compute_renewable_sector_output ==
    [appends |-> "output_R", width |-> 0,
     reads |-> {[col |-> 3, as |-> "price"]}]

\* _compute_non_renewable_sector_costs: (q, capital, energy_price) in
\* solution[:, 1:4] and non_renewable_output = solution[:, [4]]
compute_non_renewable_sector_costs ==
    [appends |-> "cost_NR", width |-> 0,
     reads |-> {[col |-> 1, as |-> "q"], [col |-> 2, as |-> "K"],
                [col |-> 3, as |-> "price"], [col |-> 4, as |-> "output_NR"]}]

\* _compute_renewable_sector_costs: ts, prices = solution[:, 0],
\* solution[:, 3] and renewable_output = solution[:, [5]]
compute_renewable_sector_costs ==
    [appends |-> "cost_R", width |-> 0,
     reads |-> {[col |-> 0, as |-> "t"], [col |-> 3, as |-> "price"],
                [col |-> 5, as |-> "output_R"]}]

\* _compute_non_renewable_sector_profits
compute_non_renewable_sector_profits ==
    [appends |-> "profit_NR", width |-> 0,
     reads |-> {[col |-> 1, as |-> "q"], [col |-> 2, as |-> "K"],
                [col |-> 3, as |-> "price"], [col |-> 4, as |-> "output_NR"]}]

\* _compute_renewable_sector_profits
compute_renewable_sector_profits ==
    [appends |-> "profit_R", width |-> 0,
     reads |-> {[col |-> 0, as |-> "t"], [col |-> 3, as |-> "price"],
                [col |-> 5, as |-> "output_R"]}]

\* the stages with the costs computed before the outputs
StagesCostsFirst ==
    <<compute_energy_prices,
      compute_non_renewable_sector_costs,
      compute_renewable_sector_costs,
      compute_non_renewable_sector_output,
      compute_renewable_sector_output,
      compute_non_renewable_sector_profits,
      compute_renewable_sector_profits>>

\* solvers.py lines 39-45, in the order of the calls
Stages ==
    <<compute_energy_prices,
      compute_non_renewable_sector_output,
      compute_renewable_sector_output,
      compute_non_renewable_sector_costs,
      compute_renewable_sector_costs,
      compute_non_renewable_sector_profits,
      compute_renewable_sector_profits>>

\* the array has the columns the stage indexes and unpacks
StageApplies(cols, st) ==
    /\ st.width = 0 \/ Len(cols) = st.width
    /\ \A r \in st.reads : r.col < Len(cols)

\* the calls of lines 39-45 from the k-th on, applied to an array with the
\* columns cols: the columns of the array they end with, or <<>> when a
\* stage indexes or unpacks a column its array does not have
RECURSIVE run_stages(_, _)
run_stages(cols, k) ==
    IF k > Len(Stages) THEN cols
    ELSE IF StageApplies(cols, Stages[k])
      THEN run_stages(Append(cols, Stages[k].appends), k + 1)
      ELSE <<>>

\* solvers.py lines 39-47: every stage appends its column and solve
\* returns.  Indexing or unpacking a column the array does not have raises.
PostProcess ==
    /\ pc = "post"
    /\ IF run_stages(columns, 1) # <<>>
         THEN /\ columns' = run_stages(columns, 1)
              /\ pc' = "returned"
              /\ UNCHANGED <<trajectory, error>>
         ELSE /\ pc' = "raised"
              /\ error' = "IndexError"
              /\ trajectory' = <<>>
              /\ columns' = <<>>
    /\ UNCHANGED <<impl, model, equilibrium, t0, K0, dt, ode_y, ode_t, ode_ok, ts, solution>>
    /\ UNCHANGED <<sectorVars, marketVars>>

\* solvers.py lines 39-47: the computation of a stage (a market price, a
\* sector operation, the fit of the price growth) raises
PostProcessRaises ==
    /\ pc = "post"
    /\ pc' = "raised"
    /\ error' = "PostProcessError"
    /\ trajectory' = <<>>
    /\ columns' = <<>>
    /\ UNCHANGED <<impl, model, equilibrium, t0, K0, dt, ode_y, ode_t, ode_ok, ts, solution>>
    /\ UNCHANGED <<sectorVars, marketVars>>

\* solve is called again on the same model with the same (t0, K0, dt): ts,
\* solution and the integrator are locals of the call and start afresh
SolveAgain ==
    /\ pc \in {"returned", "raised"}
    /\ pc' = "start"
    /\ ode_y' = [q |-> 0, K |-> 0]
    /\ ode_t' = 0
    /\ ode_ok' = TRUE
    /\ ts' = <<>>
    /\ solution' = <<>>
    /\ trajectory' = <<>>
    /\ columns' = <<>>
    /\ error' = "none"
    /\ UNCHANGED <<impl, model, equilibrium, t0, K0, dt>>
    /\ UNCHANGED <<sectorVars, marketVars>>

Next ==
    \/ Setup
    \/ Integrate
    \/ IntegrateRaises
    \/ ReverseSamples
    \/ PostProcess
    \/ PostProcessRaises
    \/ SolveAgain

Spec == Init /\ [][Next]_vars

--------------------------------------------------------------------------
(* One call of a NonRenewableEnergySector operation *)

SectorParams ==
    [tfp : {2, 4}, alpha2 : {1, 2}, beta2 : {1}, gamma2 : {2, 3},
     delta : {1}, phi : {1, 2}, sigma : {1, 2}]

\* the arguments the operations are defined for: q >= 1, capital and
\* prices strictly positive
SectorArgs ==
    [q : {1, 2, 7}, capital : {1, 4}, capital_price : {1, 2},
     energy_price : {1, 2, 3}, fossil_fuel_price : {1, 2}, interest_rate : {1}]

InitSector ==
    /\ SolverOff
    /\ MarketOff
    /\ sec_pc = "idle"
    /\ sec_params \in SectorParams
    /\ sec_args \in SectorArgs
    /\ sec_op = "none"
    /\ sec_result = Value(0)

SectorCall(op, result) ==
    /\ sec_pc = "idle"
    /\ sec_pc' = "done"
    /\ sec_op' = op
    /\ sec_result' = result
    /\ UNCHANGED <<sec_params, sec_args, solverVars, marketVars>>

CallFossilFuelDemand ==
    SectorCall("fossil_fuel_demand",
               fossil_fuel_demand(sec_params, sec_args.capital,
                                  sec_args.energy_price, sec_args.fossil_fuel_price))

CallOutput ==
    SectorCall("output",
               output(sec_params, sec_args.capital, sec_args.energy_price,
                      sec_args.fossil_fuel_price))

CallCosts ==
    SectorCall("costs",
               costs(sec_params, sec_args.q, sec_args.capital,
                     sec_args.capital_price, sec_args.energy_price,
                     sec_args.fossil_fuel_price))

CallProfits ==
    SectorCall("profits",
               profits(sec_params, sec_args.q, sec_args.capital,
                       sec_args.capital_price, sec_args.energy_price,
                       sec_args.fossil_fuel_price))

CallMarginalProductCapital ==
    SectorCall("marginal_product_capital",
               marginal_product_capital(sec_params, sec_args.capital,
                                        sec_args.energy_price,
                                        sec_args.fossil_fuel_price))

CallMarginalProductFossilFuel ==
    SectorCall("marginal_product_fossil_fuel",
               marginal_product_fossil_fuel(sec_params, sec_args.capital,
                                            sec_args.energy_price,
                                            sec_args.fossil_fuel_price))

CallEquationMotionQ ==
    SectorCall("equation_motion_q",
               equation_motion_q(sec_params, sec_args.q, sec_args.capital,
                                 sec_args.capital_price, sec_args.energy_price,
                                 sec_args.fossil_fuel_price,
                                 sec_args.interest_rate))

CallEquationMotionCapital ==
    SectorCall("equation_motion_capital",
               equation_motion_capital(sec_params, sec_args.q, sec_args.capital))

CallInvestmentDemand ==
    SectorCall("investment_demand",
               investment_demand(sec_params, sec_args.q, sec_args.capital))

NextSector ==
    \/ CallInvestmentDemand
    \/ CallFossilFuelDemand
    \/ CallOutput
    \/ CallCosts
    \/ CallProfits
    \/ CallMarginalProductCapital
    \/ CallMarginalProductFossilFuel
    \/ CallEquationMotionQ
    \/ CallEquationMotionCapital

SpecSector == InitSector /\ [][NextSector]_vars

\* the arguments a caller can pass, the edges included: q below 1 and a
\* capital stock of zero
SectorArgsAny ==
    [q : {0, 1, 2}, capital : {0, 1, 4}, capital_price : {1},
     energy_price : {1, 2}, fossil_fuel_price : {1, 2}, interest_rate : {1}]

InitSectorAny ==
    /\ SolverOff
    /\ MarketOff
    /\ sec_pc = "idle"
    /\ sec_params \in SectorParams
    /\ sec_args \in SectorArgsAny
    /\ sec_op = "none"
    /\ sec_result = Value(0)

SpecSectorAny == InitSectorAny /\ [][NextSector]_vars

--------------------------------------------------------------------------
(* Construction of a sector.  sec_args holds the constructor's arguments,  *)
(* sec_params the fields of the object the caller gets (<<>> when the      *)
(* constructor raises and no object comes to exist).                       *)

\* the arguments a caller can pass to the constructors, zero and negative
\* values included
ConstructorArgs ==
    [tfp : {0, 2}, alpha2 : {0, 1}, beta2 : {1}, gamma2 : {2},
     delta : {-1, 1}, phi : {0, 1}, sigma : {0, 1, 2}, mu : {0, 1}]

InitConstruct ==
    /\ SolverOff
    /\ MarketOff
    /\ sec_pc = "idle"
    /\ sec_params = <<>>
    /\ sec_args \in ConstructorArgs
    /\ sec_op = "none"
    /\ sec_result = Value(0)

\* RenewableEnergySector.__init__: the four arguments are stored as given
ConstructRenewable ==
    /\ sec_pc = "idle"
    /\ sec_pc' = "done"
    /\ sec_op' = "RenewableEnergySector"
    /\ sec_params' = [tfp |-> sec_args.tfp, alpha2 |-> sec_args.alpha2,
                      delta |-> sec_args.delta, mu |-> sec_args.mu]
    /\ sec_result' = Value(0)
    /\ UNCHANGED <<sec_args, solverVars, marketVars>>

\* NonRenewableEnergySector.__init__: the arguments are stored as given;
\* the only statement that can raise is rho = (sigma - 1) / sigma
ConstructNonRenewable ==
    /\ sec_pc = "idle"
    /\ sec_pc' = "done"
    /\ sec_op' = "NonRenewableEnergySector"
    /\ IF Div(sec_args.sigma - 1, sec_args.sigma).kind = "raise"
         THEN /\ sec_result' = Div(sec_args.sigma - 1, sec_args.sigma)
              /\ sec_params' = <<>>
         ELSE /\ sec_result' = Value(0)
              /\ sec_params' = [tfp |-> sec_args.tfp, alpha2 |-> sec_args.alpha2,
                                beta2 |-> sec_args.beta2,
                                gamma2 |-> sec_args.gamma2,
                                delta |-> sec_args.delta, phi |-> sec_args.phi,
                                sigma |-> sec_args.sigma]
    /\ UNCHANGED <<sec_args, solverVars, marketVars>>

NextConstruct ==
    \/ ConstructRenewable
    \/ ConstructNonRenewable

SpecConstruct == InitConstruct /\ [][NextConstruct]_vars

--------------------------------------------------------------------------
(* One call of EnergyMarket.find_market_price *)

RenewableParams == [tfp : {2}, alpha2 : {1}, delta : {1}, mu : {0, 1}]

MarketArgs ==
    [capital : {1, 4}, quantity_demand : {0, 9, 20, 40, 100},
     nr : {p \in SectorParams : p.phi = 1}, rn : RenewableParams,
     capital_price : {1}, fossil_fuel_price : {1, 2}, interest_rate : {1}]

InitMarket ==
    /\ SolverOff
    /\ SectorOff
    /\ mkt_pc = "idle"
    /\ mkt_args \in MarketArgs
    /\ mkt_result = Value(0)

FindMarketPrice ==
    /\ mkt_pc = "idle"
    /\ mkt_pc' = "done"
    /\ mkt_result' \in find_market_price(mkt_args)
    /\ UNCHANGED <<mkt_args, solverVars, sectorVars>>

\* one read of model.equilibrium for the market, the sectors and the
\* prices of mkt_args
Equilibrium ==
    /\ mkt_pc = "idle"
    /\ mkt_pc' = "equilibrium"
    /\ mkt_result' \in model_equilibrium(mkt_args)
    /\ UNCHANGED <<mkt_args, solverVars, sectorVars>>

NextMarket ==
    \/ FindMarketPrice
    \/ Equilibrium

SpecMarket == InitMarket /\ [][NextMarket]_vars

--------------------------------------------------------------------------
(* Vocabulary of the properties of solve *)

\* the number of integration steps whose sample was stacked
StepsTaken == IF solution = <<>> THEN 0 ELSE Len(solution) - 1

\* capital k lies strictly beyond the target K0, seen from the equilibrium
Beyond(k) == IF K0 <= equilibrium.K THEN k < K0 ELSE k > K0

\* solve has returned a trajectory to its caller
Returned == pc = "returned"

\* solve is over: it returned or it raised
Finished == pc \in {"returned", "raised"}

SolverRuns == impl = "ReverseShootingSolver"

--------------------------------------------------------------------------
(* C1: solve terminates for every input: when the integrated capital never *)
(* crosses K0 while every step succeeds, the loop stops after a bounded    *)
(* number of steps with a failure outcome.  Stated for the budget          *)
(* MaxSteps: once MaxSteps steps are taken, the loop is not about to       *)
(* iterate again.                                                          *)
C1_LoopStopsWithinBudget ==
    (pc = "loop" /\ StepsTaken >= MaxSteps)
        => ~(ode_ok /\ ~Beyond(ode_y.K))

(* C2: if an integration step fails, solve ends with a fatal error: it     *)
(* does not post-process and return a trajectory holding the sample of the *)
(* failed step.                                                            *)
C2_FailedStepIsFatal ==
    (SolverRuns /\ ~ode_ok) => pc \notin {"post", "returned"}

(* C3: in every returned trajectory each sample's capital lies between K0  *)
(* and Kstar (no sample is beyond K0), capital is monotonic along the      *)
(* trajectory and the final sample is the perturbed equilibrium state.     *)
(* Stated for the solves whose every integration step succeeded.           *)
C3_NoOvershootMonotonic ==
    (SolverRuns /\ Returned /\ ode_ok) =>
        /\ \A i \in 1..Len(trajectory) :
             /\ ~Beyond(trajectory[i].K)
             /\ IF K0 <= equilibrium.K
                  THEN trajectory[i].K <= equilibrium.K
                  ELSE trajectory[i].K >= equilibrium.K
        /\ \A i \in 1..(Len(trajectory) - 1) :
             IF K0 <= equilibrium.K
               THEN trajectory[i].K <= trajectory[i + 1].K
               ELSE trajectory[i].K >= trajectory[i + 1].K
        /\ trajectory[Len(trajectory)].K * EpsScale =
             equilibrium.K * (IF K0 <= equilibrium.K
                                THEN EpsScale - eps(impl)
                                ELSE EpsScale + eps(impl))
        /\ trajectory[Len(trajectory)].q = equilibrium.q

(* C4: the loop integrates exactly while the integrator is successful and  *)
(* the current capital has not crossed K0; it stops right after the first  *)
(* sample beyond K0, so at most one accumulated sample, the last one, lies *)
(* strictly beyond K0.                                                     *)
C4_StepExactlyWhileNotCrossed ==
    [][ /\ (pc = "loop" /\ Len(ts') > Len(ts))
              => (ode_ok /\ ~Beyond(ode_y.K))
        /\ (pc = "loop" /\ pc' # "loop" /\ error' # "RhsError")
              => ~(ode_ok /\ ~Beyond(ode_y.K))
        /\ \A i \in 1..(Len(solution') - 1) : ~Beyond(solution'[i].K)
      ]_vars

C4_Witness ==
    /\ Returned
    /\ StepsTaken >= 2
    /\ ode_ok
    /\ Beyond(solution[Len(solution)].K)
    /\ solution[Len(solution) - 1].K = K0

(* C5: the initial condition is the equilibrium with q left exactly at the *)
(* equilibrium q and K displaced by the relative eps, to Kstar (1 - eps)   *)
(* when K0 <= Kstar and to Kstar (1 + eps) otherwise, and the loop branch  *)
(* that runs tests the crossing in the direction of the displacement.      *)
C5_InitialConditionAndBranch ==
    [][ /\ pc' # "start" =>
              /\ solution'[1].q = equilibrium.q
              /\ solution'[1].K * EpsScale =
                   equilibrium.K * (IF K0 <= equilibrium.K
                                      THEN EpsScale - eps(impl)
                                      ELSE EpsScale + eps(impl))
        /\ (pc = "loop" /\ Len(solution') > Len(solution)) =>
              IF solution[1].K < equilibrium.K
                THEN ode_y.K >= K0
                ELSE solution[1].K > equilibrium.K /\ ode_y.K <= K0
      ]_vars

C5_Witness ==
    /\ pc = "loop"
    /\ StepsTaken >= 1
    /\ K0 > equilibrium.K
    /\ solution[1].K > equilibrium.K
    /\ solution[1].q = equilibrium.q

C7_ZeroLengthAtEquilibrium ==
    (SolverRuns /\ K0 = equilibrium.K /\ Finished) =>
        /\ StepsTaken = 0
        /\ Returned
        /\ trajectory = <<>>

(* C8: capital is strictly positive in every state reached during the      *)
(* integration and in every sample of the trajectory; a step that would    *)
(* make K non-positive is not accepted.  Stated for the solves whose every *)
(* integration step succeeded.                                             *)
C8_CapitalStaysPositive ==
    (SolverRuns /\ ode_ok) =>
        /\ pc # "start" => ode_y.K > 0
        /\ \A i \in 1..Len(solution) : solution[i].K > 0
        /\ \A i \in 1..Len(trajectory) : trajectory[i].K > 0

--------------------------------------------------------------------------
(* C9: find_market_price either returns a price, a root of excess demand,  *)
(* or raises a distinct NonConvergence error; when the search does not     *)
(* converge or the bracket holds no sign change it returns no non-price    *)
(* value.  Stated for the Cobb-Douglas sectors, whose excess demand is     *)
(* defined at every price.                                                 *)
C9_PriceOrNonConvergence ==
    (mkt_pc = "done" /\ is_cobb_douglas(mkt_args.nr)) =>
        \/ mkt_result.kind = "price" /\ IsRoot(mkt_args, mkt_result.val)
        \/ mkt_result.kind = "raise" /\ mkt_result.err = "NonConvergence"

C11_ZeroInputZeroOutput ==
    (/\ sec_pc = "done"
     /\ sec_op = "output"
     /\ sec_args.capital = 0)
        => sec_result = Value(0)

(* C12: the investment demand is defined only for q >= 1: a call with      *)
(* q < 1, made directly or through equation_motion_capital,                *)
(* equation_motion_q or costs, ends in an error and yields no value.       *)
C12_BelowOneEndsInError ==
    (/\ sec_pc = "done"
     /\ sec_args.q < 1
     /\ sec_op \in {"investment_demand", "equation_motion_capital",
                    "equation_motion_q", "costs"})
        => sec_result.kind = "raise"

(* C13: constructing a sector with a parameter that violates positivity   *)
(* (a non-positive tfp, elasticity, depreciation rate or adjustment-cost   *)
(* coefficient, or a degenerate substitution elasticity) ends in an        *)
(* InvalidParameter error and no sector object holding the value exists    *)
(* afterward.                                                              *)
C13_InvalidParameterRejected ==
    (/\ sec_pc = "done"
     /\ \/ sec_args.tfp <= 0
        \/ sec_args.alpha2 <= 0
        \/ sec_args.delta <= 0
        \/ (sec_op = "NonRenewableEnergySector"
              /\ (sec_args.phi <= 0 \/ sec_args.sigma <= 0)))
        => /\ sec_result.kind = "raise"
           /\ sec_result.err = "InvalidParameter"
           /\ DOMAIN sec_params = {}

\* the fields of a record of the trajectory, in order
TenFields ==
    <<"t", "q", "K", "price", "output_NR", "output_R", "cost_NR", "cost_R",
      "profit_NR", "profit_R">>

(* C14: every record of the trajectory that ReverseShootingSolver.solve    *)
(* returns has exactly the ten fields t, q, K, price, output_NR, output_R, *)
(* cost_NR, cost_R, profit_NR, profit_R in this order; each stage of the   *)
(* post-processing reads only columns appended before it, each holding     *)
(* what the stage takes it for, so that no stage fails for a missing       *)
(* column.                                                                 *)
C14_TenFieldsInOrder ==
    /\ (SolverRuns /\ Returned) =>
         /\ columns = TenFields
         /\ \A k \in 1..Len(Stages) :
              /\ columns[k + 3] = Stages[k].appends
              /\ StageApplies(SubSeq(columns, 1, k + 2), Stages[k])
              /\ \A r \in Stages[k].reads :
                   r.col + 1 <= k + 2 /\ columns[r.col + 1] = r.as
    /\ (SolverRuns /\ error = "IndexError") => ndim(solution) = 1

C14_Witness ==
    /\ SolverRuns
    /\ Returned
    /\ Len(trajectory) >= 3
    /\ Len(columns) = 10

SpecialCase(a) ==
    /\ is_cobb_douglas(a.nr)
    /\ a.rn.alpha2 = 2 - a.nr.alpha2
    /\ a.nr.beta2 = 2 - a.nr.alpha2

\* the tolerance on the grid: the cell of the root and the rounding of the
\* closed form
PriceTol == 2

Matches(x, y) == x - y \in (0 - PriceTol)..PriceTol

\* where the search returns a price in the special case, the price is the
\* analytic one
MatchesWhenPrice ==
    (mkt_pc = "done" /\ SpecialCase(mkt_args) /\ mkt_result.kind = "price") =>
        Matches(mkt_result.val, energy_market_price(mkt_args))

(* C16: in the special case (the renewable elasticity equals one minus the *)
(* non-renewable capital elasticity, Cobb-Douglas production, a constant   *)
(* markup subsidy) find_market_price returns a price and the price matches *)
(* the analytic clearing price to within the tolerance, for every draw of  *)
(* the parameters.                                                         *)
C16_PriceMatchesAnalytic ==
    (mkt_pc = "done" /\ SpecialCase(mkt_args)) =>
        /\ mkt_result.kind = "price"
        /\ Matches(mkt_result.val, energy_market_price(mkt_args))

(* C17: in the special case TransitionDynamicsModel.equilibrium returns    *)
(* the pair of equilibrium_q and Kstar, the root of the q_dot locus at     *)
(* q = equilibrium_q (which is what the analytic equilibrium capital is),  *)
(* for every draw of the parameters.  The closed form has irrational       *)
(* powers that the grid does not carry; the returned capital is compared   *)
(* with the root it stands for.                                            *)
C17_EquilibriumIsLocusRoot ==
    (mkt_pc = "equilibrium" /\ SpecialCase(mkt_args)) =>
        /\ mkt_result.kind = "equilibrium"
        /\ mkt_result.q = equilibrium_q(mkt_args.nr)
        /\ IsLocusRoot(locus_table(mkt_args, mkt_result.q), mkt_result.val)

(* C18: at every iteration of the shooting loop the time array and the    *)
(* state array hold the same number of entries, one more than the number   *)
(* of integration steps taken; a trajectory returned after n steps has     *)
(* n + 1 records, and record i (0-based) carries the time stamp            *)
(* t0 + i * dt next to the state produced at integration step n - i.       *)
C18_StampsPairedWithStates ==
    /\ pc = "loop" =>
         /\ Len(ts) = Len(solution)
         /\ Len(ts) = StepsTaken + 1
    /\ Returned =>
         /\ Len(trajectory) = StepsTaken + 1
         /\ \A i \in 0..StepsTaken :
              /\ trajectory[i + 1].t = t0 + i * dt
              /\ trajectory[i + 1].q = solution[StepsTaken - i + 1].q
              /\ trajectory[i + 1].K = solution[StepsTaken - i + 1].K

\* a trajectory returned after three steps, the last of which failed
C18_Witness ==
    /\ Returned
    /\ StepsTaken = 3
    /\ ~ode_ok
    /\ t0 = 1 /\ dt = 2
    /\ trajectory[1].K # trajectory[2].K

==========================================================================
